---- MODULE Spec2Model ----
(***************************************************************************)
(* Model of presentation.py: a Streamlit script that renders one page top  *)
(* to bottom.  The state is the script's position, its module-level        *)
(* variables, the files it holds open, the elements it has put on the page *)
(* and the exception (if any) that ended the run.  The file system the     *)
(* script reads is the input, fixed in the initial state.                  *)
(*                                                                         *)
(* Text is modelled as sequences of one-character strings, so that         *)
(* startswith, strip, split, int, the substring test `in`, sorted and      *)
(* split('/') are computed the way Python computes them.                   *)
(***************************************************************************)
EXTENDS Integers, Sequences, FiniteSets, TLC

VARIABLES
    fs,                             \* the files on disk (the script's input)
    pc,                             \* position of the script
    open_files,                     \* handles currently open, innermost last
    rendered,                       \* elements put on the page, in order
    exception,                      \* "none", or the uncaught exception that ended the run
    selected_report,                \* line 77
    selected_report_path,           \* line 78
    selected_trimmed_report,        \* line 103
    selected_report_path_trimmed,   \* line 104
    report_content,                 \* lines 82, 108, 153: the file whose text it holds
    gene_lengths,                   \* line 188, local of extract_gene_lengths
    lineno,                         \* index of the next line `for line in file` yields
    call,                           \* extract_gene_lengths(file_path): pending, returned, raised
    predicted_gene_lengths,         \* line 199
    df                              \* line 201, the series handed to px.box

vars == <<fs, pc, open_files, rendered, exception, selected_report,
          selected_report_path, selected_trimmed_report,
          selected_report_path_trimmed, report_content, gene_lengths, lineno, call,
          predicted_gene_lengths, df>>

(***************************************************************************)
(* Bounds of the model.                                                    *)
(***************************************************************************)
MaxLines == 2       \* lines of a gene-prediction file (function-level check)
MaxReports == 2     \* report files in one FastQC directory

(***************************************************************************)
(* Text helpers: Python's str and int operations on character sequences.   *)
(***************************************************************************)
Whitespace == {" ", "\t", "\n"}

Digits == <<"0", "1", "2", "3", "4", "5", "6", "7", "8", "9">>

IsDigit(c) == \E i \in 1..10 : Digits[i] = c

DigitVal(c) == (CHOOSE i \in 1..10 : Digits[i] = c) - 1

Abs(x) == IF x < 0 THEN -x ELSE x

\* str.startswith
StartsWith(s, p) == Len(s) >= Len(p) /\ SubSeq(s, 1, Len(p)) = p

\* the test `sub in s` on strings
Contains(sub, s) ==
    \E i \in 1..(Len(s) - Len(sub) + 1) : SubSeq(s, i, i + Len(sub) - 1) = sub

\* str.strip(): leading and trailing whitespace removed
RECURSIVE LStrip(_)
LStrip(s) == IF s # <<>> /\ Head(s) \in Whitespace THEN LStrip(Tail(s)) ELSE s

RECURSIVE RStrip(_)
RStrip(s) ==
    IF s # <<>> /\ s[Len(s)] \in Whitespace
    THEN RStrip(SubSeq(s, 1, Len(s) - 1))
    ELSE s

Strip(s) == RStrip(LStrip(s))

\* str.split() without argument: the maximal runs of non-whitespace
RECURSIVE SplitFrom(_, _, _, _)
SplitFrom(s, i, cur, acc) ==
    IF i > Len(s)
    THEN IF cur = <<>> THEN acc ELSE Append(acc, cur)
    ELSE IF s[i] \in Whitespace
         THEN SplitFrom(s, i + 1, <<>>, IF cur = <<>> THEN acc ELSE Append(acc, cur))
         ELSE SplitFrom(s, i + 1, Append(cur, s[i]), acc)

Split(s) == SplitFrom(s, 1, <<>>, <<>>)

\* str.split(sep) with a one-character separator: empty pieces are kept
RECURSIVE SplitOnFrom(_, _, _, _, _)
SplitOnFrom(s, sep, i, cur, acc) ==
    IF i > Len(s)
    THEN Append(acc, cur)
    ELSE IF s[i] = sep
         THEN SplitOnFrom(s, sep, i + 1, <<>>, Append(acc, cur))
         ELSE SplitOnFrom(s, sep, i + 1, Append(cur, s[i]), acc)

SplitOn(s, sep) == SplitOnFrom(s, sep, 1, <<>>, <<>>)

\* int(tok) succeeds: an optional sign, then one or more decimal digits
\* (the tokens come out of split(), so they hold no whitespace)
UnsignedPart(tok) ==
    IF tok # <<>> /\ Head(tok) \in {"+", "-"} THEN Tail(tok) ELSE tok

IsInt(tok) ==
    /\ UnsignedPart(tok) # <<>>
    /\ \A i \in 1..Len(UnsignedPart(tok)) : IsDigit(UnsignedPart(tok)[i])

RECURSIVE DigitsValue(_, _)
DigitsValue(ds, acc) ==
    IF ds = <<>> THEN acc ELSE DigitsValue(Tail(ds), 10 * acc + DigitVal(Head(ds)))

\* int(tok), for a token on which int() succeeds
IntOf(tok) ==
    IF Head(tok) = "-"
    THEN -DigitsValue(UnsignedPart(tok), 0)
    ELSE DigitsValue(UnsignedPart(tok), 0)

(***************************************************************************)
(* extract_gene_lengths: the per-line computation (lines 191-196).         *)
(***************************************************************************)
\* Faulty variant of IsHeader: no line is taken for a header
IsHeaderNever(line) == FALSE

\* line 191: line.startswith(">")
IsHeader(line) == StartsWith(line, <<">">>)

\* Faulty variant of GeneLength: the span is not made inclusive
GeneLengthNoPlusOne(start, end) == Abs(end - start)

\* Faulty variant of GeneLength: the difference is taken without abs
GeneLengthNoAbs(start, end) == (end - start) + 1

\* line 195: gene_length = abs(end - start) + 1 (Python integers are unbounded)
GeneLength(start, end) == Abs(end - start) + 1

\* lines 192-195 on one data line: the exception raised ("none" when the line
\* parses) and the length computed.  fields[1] and fields[2] are Python's
\* 0-based indices, so the second and third field.
ParseLine(line) ==
    LET fields == Split(Strip(line)) IN
    IF Len(fields) < 2 THEN [exc |-> "IndexError", len |-> 0]
    ELSE IF ~IsInt(fields[2]) THEN [exc |-> "ValueError", len |-> 0]
    ELSE IF Len(fields) < 3 THEN [exc |-> "IndexError", len |-> 0]
    ELSE IF ~IsInt(fields[3]) THEN [exc |-> "ValueError", len |-> 0]
    ELSE [exc |-> "none", len |-> GeneLength(IntOf(fields[2]), IntOf(fields[3]))]

\* `for line in file` yields each line with its line terminator
ReadLine(l) == Append(l, "\n")

Threshold == 100000

\* Faulty variant of KeepForPlot: the boundary value is dropped
KeepForPlotStrict(x) == x < Threshold

\* line 201: df["Predicted Gene Length"] <= 100000
KeepForPlot(x) == x <= Threshold

(***************************************************************************)
(* The input: the files on disk.  A gene-prediction file is drawn as a     *)
(* sequence of line descriptors and written out as text (LineText); the    *)
(* script sees only the text.                                              *)
(***************************************************************************)
RECURSIVE NatDigits(_)
NatDigits(n) ==
    IF n < 10
    THEN <<Digits[n + 1]>>
    ELSE Append(NatDigits(n \div 10), Digits[(n % 10) + 1])

\* decimal text of an integer
FormatInt(n) == IF n < 0 THEN <<"-">> \o NatDigits(-n) ELSE NatDigits(n)

CDS == <<"C", "D", "S">>

\* a data line with integer coordinates, in one of the layouts
DataText(start, end, layout) ==
    CASE layout = "strand" ->
            CDS \o <<" ">> \o FormatInt(start) \o <<" ">> \o FormatInt(end) \o <<" ", "+">>
      [] layout = "plain" ->
            CDS \o <<" ">> \o FormatInt(start) \o <<" ">> \o FormatInt(end)
      [] layout = "tabs" ->
            CDS \o <<"\t">> \o FormatInt(start) \o <<"\t", "\t">> \o FormatInt(end) \o <<" ">>
      [] layout = "indent" ->
            <<" ", ">", "s", " ">> \o FormatInt(start) \o <<" ">> \o FormatInt(end)
      [] layout = "plus" ->
            CDS \o <<" ", "+">> \o FormatInt(start) \o <<" ">> \o FormatInt(end)

Coords == {-5, 0, 1, 100000, 100001}

ExamplePairs == {<<100, 199>>, <<199, 100>>, <<1, 300>>, <<500, 250>>}

\* a line descriptor: a data line (coordinates and layout) or a fixed text
DataLine(start, end, layout) ==
    [kind |-> "data", start |-> start, end |-> end, layout |-> layout, text |-> <<>>]

TextLine(kind, text) ==
    [kind |-> kind, start |-> 0, end |-> 0, layout |-> "text", text |-> text]

DataLines ==
    {DataLine(p[1], p[2], "strand") : p \in (Coords \X Coords) \cup ExamplePairs}
    \cup {DataLine(7, 1, l) : l \in {"plain", "tabs", "indent", "plus"}}

HeaderTexts ==
    { <<">">>,
      <<">", "s", "1">>,
      <<">", "s", " ", "1", " ", "2">> }

HeaderLines == {TextLine("header", t) : t \in HeaderTexts}

\* non-header lines with fewer than 3 fields or a non-integer field 1 or 2
BadTexts ==
    { <<>>,
      <<" ", "\t">>,
      CDS,
      CDS \o <<" ", "1">>,
      <<"1", " ", "2">>,
      CDS \o <<" ", "x", " ", "2">>,
      CDS \o <<" ", "1", " ", "x">>,
      CDS \o <<" ", "1", ".", "5", " ", "2">>,
      CDS \o <<" ", "1", " ", "-">> }

BadLines == {TextLine("bad", t) : t \in BadTexts}

LineText(d) ==
    IF d.kind = "data" THEN DataText(d.start, d.end, d.layout) ELSE d.text

\* sequences over S of length at most n
SeqsUpTo(S, n) == UNION {[1..k -> S] : k \in 0..n}

\* the example file of the documentation: a header and two data lines
ExampleFile ==
    <<TextLine("header", <<">", "s", "1">>),
      DataLine(1, 300, "strand"),
      DataLine(500, 250, "strand")>>

\* files of the function-level check
ExtractFiles ==
    SeqsUpTo(DataLines \cup HeaderLines \cup BadLines, MaxLines) \cup {ExampleFile}

\* files of the page-level check: header only, the spec's example, a
\* malformed line after a good one, a blank line
PageFiles ==
    { <<TextLine("header", <<">", "s", "1">>)>>,
      ExampleFile,
      <<DataLine(1, 100001, "strand"),
        TextLine("bad", CDS \o <<" ", "x", " ", "2">>)>>,
      <<TextLine("bad", <<>>)>> }

DotHtml == <<".", "h", "t", "m", "l">>

ReportNames == { <<"a">> \o DotHtml, <<"b">> \o DotHtml, <<"a", "b">> \o DotHtml }

BeforeDir == <<"f", "a", "s", "t", "q", "c", "_", "b", "e", "f", "o", "r", "e", "/">>

AfterDir == <<"f", "a", "s", "t", "q", "c", "_", "a", "f", "t", "e", "r", "/">>

ReportSets == {S \in SUBSET ReportNames : Cardinality(S) <= MaxReports}

\* the file system: report names in the two FastQC directories, which of the
\* fixed-name files exist, and the lines of run_tres.predict
FileSystems(files) ==
    [before : ReportSets, after : ReportSets, report : BOOLEAN,
     predict : {TRUE}, lines : files, tsv : BOOLEAN, jpg : SUBSET (1..3)]
    \cup
    [before : ReportSets, after : ReportSets, report : BOOLEAN,
     predict : {FALSE}, lines : {<<>>}, tsv : BOOLEAN, jpg : SUBSET (1..3)]

\* the text of line i of run_tres.predict
PredictLine(i) == LineText(fs.lines[i])

(***************************************************************************)
(* FastQC report selection (lines 75-78 and 101-104).                      *)
(***************************************************************************)
\* the characters of the paths, in code-point order
CodeOrder ==
    <<".", "/", "_", "a", "b", "c", "e", "f", "h", "l", "m", "o", "q", "r", "s", "t">>

Rank(c) == CHOOSE i \in 1..Len(CodeOrder) : CodeOrder[i] = c

\* Python's < on strings
RECURSIVE StrLess(_, _)
StrLess(a, b) ==
    IF a = <<>> THEN b # <<>>
    ELSE IF b = <<>> THEN FALSE
    ELSE IF Head(a) = Head(b) THEN StrLess(Tail(a), Tail(b))
    ELSE Rank(Head(a)) < Rank(Head(b))

\* sorted(...) of a set of distinct paths
RECURSIVE Sorted(_)
Sorted(S) ==
    IF S = {} THEN <<>>
    ELSE LET m == CHOOSE x \in S : \A y \in S \ {x} : StrLess(x, y)
         IN  <<m>> \o Sorted(S \ {m})

\* glob.glob(dir + "*.html"): the paths of the reports in the directory
Glob(dir, names) == {dir \o n : n \in names}

\* lines 75, 101: report_files = sorted(glob.glob(...))
ReportFiles(dir, names) == Sorted(Glob(dir, names))

\* file.split('/')[-1]
Basename(file) == LET parts == SplitOn(file, "/") IN parts[Len(parts)]

\* lines 76, 102: report_file_names
ReportFileNames(files) == [i \in 1..Len(files) |-> Basename(files[i])]

\* what st.selectbox can return: any of the options; None (here <<>>) when
\* there is no option
SelectboxChoices(options) ==
    IF options = <<>> THEN {<<>>} ELSE {options[i] : i \in 1..Len(options)}

\* lines 78, 104: next((file for file in files if selected in file), "")
FirstMatch(files, selected) ==
    IF \E i \in 1..Len(files) : Contains(selected, files[i])
    THEN files[CHOOSE i \in 1..Len(files) :
                 /\ Contains(selected, files[i])
                 /\ \A j \in 1..(i - 1) : ~Contains(selected, files[j])]
    ELSE <<>>

(***************************************************************************)
(* The page: its sections in script order, and exception handling.         *)
(***************************************************************************)
Sections ==
    <<"intro", "fastqc_before", "cleaning", "fastqc_after", "assembly",
      "quast_report", "gene_intro", "gene_chart", "blast_intro", "blast_table",
      "challenges", "conclusion", "image1", "image2", "image3">>

SectionIndex(sec) == CHOOSE i \in 1..Len(Sections) : Sections[i] = sec

\* where the script goes when section sec is finished
After(sec) ==
    IF SectionIndex(sec) = Len(Sections) THEN "done" ELSE Sections[SectionIndex(sec) + 1]

\* sections that only call display primitives on constants
StaticSections ==
    {"intro", "cleaning", "assembly", "gene_intro", "blast_intro", "challenges", "conclusion"}

ReportPath == <<"r", "e", "p", "o", "r", "t">> \o DotHtml

PredictPath == <<"r", "u", "n", "_", "t", "r", "e", "s", ".", "p", "r", "e", "d", "i", "c", "t">>

Element(sec, kind, src) == [section |-> sec, kind |-> kind, src |-> src]

\* Faulty variant of Catches: the two try blocks have no except clause
CatchesNothing(sec, exc) == FALSE

\* Faulty variant of Catches: a missing file is caught in every section
CatchesEverywhere(sec, exc) == exc = "FileNotFoundError"

\* lines 151/171 and 227/232: the only try blocks, both `except FileNotFoundError`
Catches(sec, exc) ==
    sec \in {"quast_report", "blast_table"} /\ exc = "FileNotFoundError"

\* exception exc reaches the top level of section sec: the except clause shows
\* st.error and the script goes on, or the run ends with the exception
Propagate(sec, exc) ==
    IF Catches(sec, exc)
    THEN /\ rendered' = Append(rendered, Element(sec, "error", <<>>))
         /\ exception' = "none"
         /\ pc' = After(sec)
    ELSE /\ exception' = exc
         /\ pc' = "aborted"
         /\ UNCHANGED rendered

\* Faulty variant of WithExit: the handle is closed on the normal path only
WithExitNoCleanup(handles, exc) ==
    IF exc = "none" THEN SubSeq(handles, 1, Len(handles) - 1) ELSE handles

\* leaving a `with open(...)` block closes its handle, exception or not
WithExit(handles, exc) == SubSeq(handles, 1, Len(handles) - 1)

\* Faulty variant of OpenRaises: a missing file opens as an empty one
OpenNeverRaises(exists) == FALSE

\* open(path, 'r') raises FileNotFoundError when the path does not exist
OpenRaises(exists) == ~exists

selvars ==
    <<selected_report, selected_report_path, selected_trimmed_report,
      selected_report_path_trimmed>>

genevars == <<gene_lengths, lineno, call, predicted_gene_lengths, df>>

\* display calls on constants: headers, markdown, the comparison table
RenderStatic(sec) ==
    /\ pc = sec
    /\ sec \in StaticSections
    /\ rendered' = Append(rendered, Element(sec, "text", <<>>))
    /\ pc' = After(sec)
    /\ UNCHANGED <<fs, open_files, exception, selvars, report_content, genevars>>

\* lines 75-80
FastqcBeforeSelect ==
    /\ pc = "fastqc_before"
    /\ LET report_files == ReportFiles(BeforeDir, fs.before)
           report_file_names == ReportFileNames(report_files)
       IN  \E choice \in SelectboxChoices(report_file_names) :
             /\ selected_report' = choice
             /\ selected_report_path' = FirstMatch(report_files, choice)
             /\ pc' = IF FirstMatch(report_files, choice) # <<>>
                      THEN "fastqc_before_open"
                      ELSE After("fastqc_before")
    /\ rendered' = Append(rendered, Element("fastqc_before", "selectbox", <<>>))
    /\ UNCHANGED <<fs, open_files, exception, selected_trimmed_report,
                   selected_report_path_trimmed, report_content, genevars>>

\* line 81
FastqcBeforeOpen ==
    /\ pc = "fastqc_before_open"
    /\ open_files' = Append(open_files, selected_report_path)
    /\ pc' = "fastqc_before_read"
    /\ UNCHANGED <<fs, rendered, exception, selvars, report_content, genevars>>

\* line 82 and the end of the with block
FastqcBeforeRead ==
    /\ pc = "fastqc_before_read"
    /\ report_content' = open_files[Len(open_files)]
    /\ open_files' = WithExit(open_files, "none")
    /\ pc' = "fastqc_before_embed"
    /\ UNCHANGED <<fs, rendered, exception, selvars, genevars>>

\* line 83
FastqcBeforeEmbed ==
    /\ pc = "fastqc_before_embed"
    /\ rendered' = Append(rendered, Element("fastqc_before", "html", report_content))
    /\ pc' = After("fastqc_before")
    /\ UNCHANGED <<fs, open_files, exception, selvars, report_content, genevars>>

\* lines 101-106
FastqcAfterSelect ==
    /\ pc = "fastqc_after"
    /\ LET trimmed_report_files == ReportFiles(AfterDir, fs.after)
           report_file_names_trimmed == ReportFileNames(trimmed_report_files)
       IN  \E choice \in SelectboxChoices(report_file_names_trimmed) :
             /\ selected_trimmed_report' = choice
             /\ selected_report_path_trimmed' = FirstMatch(trimmed_report_files, choice)
             /\ pc' = IF FirstMatch(trimmed_report_files, choice) # <<>>
                      THEN "fastqc_after_open"
                      ELSE After("fastqc_after")
    /\ rendered' = Append(rendered, Element("fastqc_after", "selectbox", <<>>))
    /\ UNCHANGED <<fs, open_files, exception, selected_report, selected_report_path,
                   report_content, genevars>>

\* line 107
FastqcAfterOpen ==
    /\ pc = "fastqc_after_open"
    /\ open_files' = Append(open_files, selected_report_path_trimmed)
    /\ pc' = "fastqc_after_read"
    /\ UNCHANGED <<fs, rendered, exception, selvars, report_content, genevars>>

\* line 108 and the end of the with block
FastqcAfterRead ==
    /\ pc = "fastqc_after_read"
    /\ report_content' = open_files[Len(open_files)]
    /\ open_files' = WithExit(open_files, "none")
    /\ pc' = "fastqc_after_embed"
    /\ UNCHANGED <<fs, rendered, exception, selvars, genevars>>

\* line 109
FastqcAfterEmbed ==
    /\ pc = "fastqc_after_embed"
    /\ rendered' = Append(rendered, Element("fastqc_after", "html", report_content))
    /\ pc' = After("fastqc_after")
    /\ UNCHANGED <<fs, open_files, exception, selvars, report_content, genevars>>

\* lines 150-152: open inside the try block
QuastOpen ==
    /\ pc = "quast_report"
    /\ IF OpenRaises(fs.report)
       THEN /\ Propagate("quast_report", "FileNotFoundError")
            /\ UNCHANGED open_files
       ELSE /\ open_files' = Append(open_files, ReportPath)
            /\ pc' = "quast_read"
            /\ UNCHANGED <<rendered, exception>>
    /\ UNCHANGED <<fs, selvars, report_content, genevars>>

\* line 153 and the end of the with block
QuastRead ==
    /\ pc = "quast_read"
    /\ report_content' = open_files[Len(open_files)]
    /\ open_files' = WithExit(open_files, "none")
    /\ pc' = "quast_embed"
    /\ UNCHANGED <<fs, rendered, exception, selvars, genevars>>

\* lines 155-170
QuastEmbed ==
    /\ pc = "quast_embed"
    /\ rendered' = Append(rendered, Element("quast_report", "html", report_content))
    /\ pc' = After("quast_report")
    /\ UNCHANGED <<fs, open_files, exception, selvars, report_content, genevars>>

\* lines 199, 188, 189: the call, gene_lengths = [], open(file_path, 'r')
ExtractOpen ==
    /\ pc = "gene_chart"
    /\ gene_lengths' = <<>>
    /\ IF OpenRaises(fs.predict)
       THEN /\ call' = "raised"
            /\ Propagate("gene_chart", "FileNotFoundError")
            /\ UNCHANGED <<open_files, lineno>>
       ELSE /\ open_files' = Append(open_files, PredictPath)
            /\ lineno' = 1
            /\ pc' = "extract_loop"
            /\ UNCHANGED <<rendered, exception, call>>
    /\ UNCHANGED <<fs, selvars, report_content, predicted_gene_lengths, df>>

\* Faulty variant of ExtractLine: a line that does not parse is skipped
ExtractLineSkipBad ==
    /\ pc = "extract_loop"
    /\ lineno <= Len(fs.lines)
    /\ LET line == ReadLine(PredictLine(lineno))
           parsed == ParseLine(line)
       IN  /\ gene_lengths' = IF IsHeader(line) \/ parsed.exc # "none"
                              THEN gene_lengths
                              ELSE Append(gene_lengths, parsed.len)
           /\ lineno' = lineno + 1
    /\ UNCHANGED <<fs, pc, exception, open_files, rendered, selvars, report_content,
                   call, predicted_gene_lengths, df>>

\* lines 190-196: one iteration of `for line in file`
ExtractLine ==
    /\ pc = "extract_loop"
    /\ lineno <= Len(fs.lines)
    /\ LET line == ReadLine(PredictLine(lineno))
           parsed == ParseLine(line)
       IN  IF IsHeader(line)
           THEN /\ lineno' = lineno + 1
                /\ UNCHANGED <<pc, exception, gene_lengths>>
           ELSE IF parsed.exc = "none"
           THEN /\ gene_lengths' = Append(gene_lengths, parsed.len)
                /\ lineno' = lineno + 1
                /\ UNCHANGED <<pc, exception>>
           ELSE /\ exception' = parsed.exc
                /\ pc' = "extract_unwind"
                /\ UNCHANGED <<gene_lengths, lineno>>
    /\ UNCHANGED <<fs, open_files, rendered, selvars, report_content, call,
                   predicted_gene_lengths, df>>

\* an exception raised in the loop leaves the with block and the function
ExtractUnwind ==
    /\ pc = "extract_unwind"
    /\ open_files' = WithExit(open_files, exception)
    /\ call' = "raised"
    /\ Propagate("gene_chart", exception)
    /\ UNCHANGED <<fs, selvars, report_content, gene_lengths, lineno,
                   predicted_gene_lengths, df>>

\* lines 197, 199: end of the loop and of the with block, return gene_lengths
ExtractReturn ==
    /\ pc = "extract_loop"
    /\ lineno > Len(fs.lines)
    /\ open_files' = WithExit(open_files, "none")
    /\ call' = "returned"
    /\ predicted_gene_lengths' = gene_lengths
    /\ pc' = "filter"
    /\ UNCHANGED <<fs, rendered, exception, selvars, report_content, gene_lengths,
                   lineno, df>>

\* lines 200-201
FilterLengths ==
    /\ pc = "filter"
    /\ df' = SelectSeq(predicted_gene_lengths, KeepForPlot)
    /\ pc' = "plot"
    /\ UNCHANGED <<fs, open_files, rendered, exception, selvars, report_content,
                   gene_lengths, lineno, call, predicted_gene_lengths>>

\* lines 203-213
PlotChart ==
    /\ pc = "plot"
    /\ rendered' = Append(rendered, Element("gene_chart", "chart", <<>>))
    /\ pc' = After("gene_chart")
    /\ UNCHANGED <<fs, open_files, exception, selvars, report_content, genevars>>

\* lines 221-233: pd.read_csv opens and closes the file itself; from here on
\* the script's name df is the BLAST table, which the model does not track
BlastTable ==
    /\ pc = "blast_table"
    /\ IF OpenRaises(fs.tsv)
       THEN Propagate("blast_table", "FileNotFoundError")
       ELSE /\ rendered' = Append(rendered, Element("blast_table", "table", <<>>))
            /\ pc' = After("blast_table")
            /\ UNCHANGED exception
    /\ UNCHANGED <<fs, open_files, selvars, report_content, genevars>>

\* lines 257-262: st.image raises when it cannot open the file
Image(i) ==
    LET sec == Sections[SectionIndex("image1") + i - 1] IN
    /\ pc = sec
    /\ IF i \in fs.jpg
       THEN /\ rendered' = Append(rendered, Element(sec, "image", <<>>))
            /\ pc' = After(sec)
            /\ UNCHANGED exception
       ELSE Propagate(sec, "MediaFileStorageError")
    /\ UNCHANGED <<fs, open_files, selvars, report_content, genevars>>

(***************************************************************************)
(* Specifications.                                                         *)
(***************************************************************************)
InitScript ==
    /\ open_files = <<>>
    /\ rendered = <<>>
    /\ exception = "none"
    /\ selected_report = <<>>
    /\ selected_report_path = <<>>
    /\ selected_trimmed_report = <<>>
    /\ selected_report_path_trimmed = <<>>
    /\ report_content = <<>>
    /\ gene_lengths = <<>>
    /\ lineno = 0
    /\ call = "pending"
    /\ predicted_gene_lengths = <<>>
    /\ df = <<>>

\* one run of the script on some file system
Init ==
    /\ fs \in FileSystems(PageFiles)
    /\ pc = "intro"
    /\ InitScript

Next ==
    \/ \E sec \in StaticSections : RenderStatic(sec)
    \/ FastqcBeforeSelect
    \/ FastqcBeforeOpen
    \/ FastqcBeforeRead
    \/ FastqcBeforeEmbed
    \/ FastqcAfterSelect
    \/ FastqcAfterOpen
    \/ FastqcAfterRead
    \/ FastqcAfterEmbed
    \/ QuastOpen
    \/ QuastRead
    \/ QuastEmbed
    \/ ExtractOpen
    \/ ExtractLine
    \/ ExtractUnwind
    \/ ExtractReturn
    \/ FilterLengths
    \/ PlotChart
    \/ BlastTable
    \/ \E i \in 1..3 : Image(i)

Spec == Init /\ [][Next]_vars

\* extract_gene_lengths(file_path) and the filter of lines 199-201, applied to
\* every gene-prediction file of ExtractFiles and to a missing file
ExtractFileSystems ==
    [before : {{}}, after : {{}}, report : {TRUE}, predict : {TRUE},
     lines : ExtractFiles, tsv : {TRUE}, jpg : {1..3}]
    \cup
    [before : {{}}, after : {{}}, report : {TRUE}, predict : {FALSE},
     lines : {<<>>}, tsv : {TRUE}, jpg : {1..3}]

InitExtract ==
    /\ fs \in ExtractFileSystems
    /\ pc = "gene_chart"
    /\ InitScript

NextExtract ==
    \/ ExtractOpen
    \/ ExtractLine
    \/ ExtractUnwind
    \/ ExtractReturn
    \/ FilterLengths

SpecExtract == InitExtract /\ [][NextExtract]_vars

(***************************************************************************)
(* Properties.                                                             *)
(***************************************************************************)
\* the lines of run_tres.predict that do not start with '>'
NonHeaderLines == SelectSeq(fs.lines, LAMBDA d : d.kind # "header")

\* the file exists and every non-header line has 3 fields with integer
\* fields 1 and 2
WellFormed == fs.predict /\ \A i \in 1..Len(fs.lines) : fs.lines[i].kind # "bad"

HasBadLine == fs.predict /\ \E i \in 1..Len(fs.lines) : fs.lines[i].kind = "bad"

FirstBadLine == CHOOSE i \in 1..Len(fs.lines) :
                    /\ fs.lines[i].kind = "bad"
                    /\ \A j \in 1..(i - 1) : fs.lines[j].kind # "bad"

\* C1: on a well-formed gene-prediction file extract_gene_lengths does not
\* raise, and what it returns has one element per data line, the i-th being
\* abs(end_i - start_i) + 1 for the i-th data line in file order.
C1_LengthsPerDataLine ==
    WellFormed =>
        /\ call # "raised"
        /\ call = "returned" =>
            /\ Len(predicted_gene_lengths) = Len(NonHeaderLines)
            /\ \A i \in 1..Len(NonHeaderLines) :
                 LET d == NonHeaderLines[i]
                 IN  predicted_gene_lengths[i] =
                        (IF d.end >= d.start THEN d.end - d.start ELSE d.start - d.end) + 1

\* C1 case: the documentation's example file has been read and gave [300, 251]
C1_Witness ==
    /\ call = "returned"
    /\ fs.lines = ExampleFile
    /\ predicted_gene_lengths = <<300, 251>>

HeaderOnly == fs.predict /\ \A i \in 1..Len(fs.lines) : fs.lines[i].kind = "header"

\* C2: header lines are ignored: during the loop the list holds exactly one
\* element per non-header line read so far, a header line never raises, and a
\* file of header lines only returns the empty sequence.
C2_HeadersIgnored ==
    /\ (pc = "extract_loop" /\ exception = "none") =>
          Len(gene_lengths) =
              Cardinality({i \in 1..(lineno - 1) : fs.lines[i].kind # "header"})
    /\ pc = "extract_unwind" => fs.lines[lineno].kind # "header"
    /\ HeaderOnly =>
          /\ call # "raised"
          /\ call = "returned" => predicted_gene_lengths = <<>>

\* C2 case: a file of two header lines, one of them looking like a data
\* line, has returned the empty sequence
C2_Witness ==
    /\ call = "returned"
    /\ HeaderOnly
    /\ Len(fs.lines) = 2
    /\ fs.lines[2].text = <<">", "s", " ", "1", " ", "2">>
    /\ predicted_gene_lengths = <<>>

\* C3: on a path that does not exist the call ends in FileNotFoundError, which
\* leaves the function and, uncaught by the caller, ends the run; nothing is
\* ever returned or assigned.
C3_MissingFileRaises ==
    ~fs.predict =>
        /\ call # "returned"
        /\ predicted_gene_lengths = <<>>
        /\ pc \in {"gene_chart", "aborted"}
        /\ pc = "aborted" => call = "raised" /\ exception = "FileNotFoundError"

\* C3 case: the call on the missing file has raised
C3_Witness ==
    /\ ~fs.predict
    /\ call = "raised"
    /\ exception = "FileNotFoundError"
    /\ pc = "aborted"

\* C4: with a malformed non-header line in the file the call never returns:
\* the loop does not get past the first such line, the call ends in IndexError
\* or ValueError, no list is handed to the caller and the run ends there.
C4_MalformedLineRaises ==
    HasBadLine =>
        /\ call # "returned"
        /\ predicted_gene_lengths = <<>>
        /\ lineno <= FirstBadLine
        /\ pc \in {"gene_chart", "extract_loop", "extract_unwind", "aborted"}
        /\ pc = "aborted" =>
              /\ call = "raised"
              /\ exception \in {"IndexError", "ValueError"}
              /\ lineno = FirstBadLine

\* C4 case: a blank line after a good data line has ended the run, the
\* length computed before it discarded
C4_Witness ==
    /\ HasBadLine
    /\ pc = "aborted"
    /\ exception = "IndexError"
    /\ fs.lines[lineno].text = <<>>
    /\ gene_lengths # <<>>
    /\ predicted_gene_lengths = <<>>

\* the indices of the extracted lengths that are at most 100000
KeptIndices == {i \in 1..Len(predicted_gene_lengths) : predicted_gene_lengths[i] <= 100000}

\* the j-th smallest of them
KeptIndex(j) == CHOOSE i \in KeptIndices : Cardinality({k \in KeptIndices : k < i}) = j - 1

\* C5: the series handed to the box plot is exactly the extracted lengths that
\* are <= 100000, in their original order.
C5_ThresholdFilter ==
    pc = "plot" =>
        /\ Len(df) = Cardinality(KeptIndices)
        /\ \A j \in 1..Len(df) : df[j] = predicted_gene_lengths[KeptIndex(j)]

\* C5 case: 100000 is kept and 100001 is dropped
C5_Witness ==
    /\ pc = "plot"
    /\ predicted_gene_lengths = <<100000, 100001>>
    /\ df = <<100000>>

\* C6: every length computed is a positive integer, and two data lines with
\* start and end swapped get the same length.
C6_PositiveSymmetric ==
    /\ \A k \in 1..Len(gene_lengths) : gene_lengths[k] \in Nat \ {0}
    /\ \A i, j \in 1..Len(gene_lengths) :
          (/\ NonHeaderLines[i].start = NonHeaderLines[j].end
           /\ NonHeaderLines[i].end = NonHeaderLines[j].start)
          => gene_lengths[i] = gene_lengths[j]

\* C6 case: start=100,end=199 and start=199,end=100 both gave 100
C6_Witness ==
    /\ Len(fs.lines) = 2
    /\ fs.lines[1].start = 100 /\ fs.lines[1].end = 199
    /\ fs.lines[2].start = 199 /\ fs.lines[2].end = 100
    /\ gene_lengths = <<100, 100>>

\* the run is over
Finished == pc \in {"done", "aborted"}

\* the inputs of a section are present (and, for the chart, well-formed)
InputsOk(sec) ==
    CASE sec = "quast_report" -> fs.report
      [] sec = "gene_chart" -> WellFormed
      [] sec = "blast_table" -> fs.tsv
      [] sec = "image1" -> 1 \in fs.jpg
      [] sec = "image2" -> 2 \in fs.jpg
      [] sec = "image3" -> 3 \in fs.jpg
      [] OTHER -> TRUE

\* the section's own content is on the page
Shown(sec) ==
    \E k \in 1..Len(rendered) : rendered[k].section = sec /\ rendered[k].kind # "error"

\* an st.error message is on the page in the section's place
ErrorShown(sec) ==
    \E k \in 1..Len(rendered) : rendered[k].section = sec /\ rendered[k].kind = "error"

\* the sections whose missing file the script reports with st.error
OptionalReports == {"quast_report", "blast_table"}

\* an unguarded section with a bad input: the run ends in it
Blocks(sec) == sec \notin OptionalReports /\ ~InputsOk(sec)

Before(a, b) == SectionIndex(a) < SectionIndex(b)

SectionSet == {Sections[i] : i \in 1..Len(Sections)}

\* the script gets to section sec
Reached(sec) == \A t \in SectionSet : Before(t, sec) => ~Blocks(t)

\* C7 as stated: when report.html or sorted_file.tsv is missing, the page
\* shows an error message in its place and every later section whose own
\* inputs are present is rendered.
C7_AsStated ==
    Finished =>
        \A m \in OptionalReports :
            (Reached(m) /\ ~InputsOk(m)) =>
                /\ ErrorShown(m)
                /\ \A s \in SectionSet : (Before(m, s) /\ InputsOk(s)) => Shown(s)

\* C7, amended: when report.html or sorted_file.tsv is missing, the page shows
\* an error message in its place and the script goes on; a later section is
\* rendered provided its own inputs and those of every section between the
\* two are present and well-formed.
C7_MissingReportRecovered ==
    Finished =>
        \A m \in OptionalReports :
            (Reached(m) /\ ~InputsOk(m)) =>
                /\ ErrorShown(m)
                /\ ~Shown(m)
                /\ \A s \in SectionSet :
                      (/\ Before(m, s)
                       /\ InputsOk(s)
                       /\ \A t \in SectionSet : (Before(m, t) /\ Before(t, s)) => ~Blocks(t))
                      => Shown(s)

\* C7 case: both optional files were missing, both messages are on the page
\* and the run went on to the chart and the last image
C7_Witness ==
    /\ pc = "done"
    /\ ~fs.report /\ ~fs.tsv
    /\ ErrorShown("quast_report") /\ ErrorShown("blast_table")
    /\ Shown("gene_chart") /\ Shown("image3")

\* the sections whose inputs are missing or malformed
Faulty == {s \in SectionSet : ~InputsOk(s)}

\* C8 as stated: if exactly one section fails to render, all the other
\* sections of the page are rendered.
C8_AsStated ==
    (Finished /\ Cardinality(Faulty) = 1) =>
        \A s \in SectionSet \ Faulty : Shown(s)

\* C8, amended: a failure is contained only in the two sections guarded by
\* try/except: if the one failing section is the quality report or the BLAST
\* table, its error message is shown and all other sections are rendered; if
\* it is any other section, the run ends in it: the sections before it are
\* rendered, it and the sections after it are not.
C8_ContainedOnlyWhenGuarded ==
    (Finished /\ Cardinality(Faulty) = 1) =>
        LET f == CHOOSE s \in Faulty : TRUE IN
        IF f \in OptionalReports
        THEN /\ pc = "done"
             /\ ErrorShown(f) /\ ~Shown(f)
             /\ \A s \in SectionSet \ {f} : Shown(s)
        ELSE /\ pc = "aborted"
             /\ \A s \in SectionSet : Before(s, f) => Shown(s)
             /\ \A s \in SectionSet : ~Before(s, f) => ~Shown(s) /\ ~ErrorShown(s)

\* C8 case: only run_tres.predict is bad; the run ended in the chart, with the
\* sections before it on the page and the BLAST table and images not
C8_Witness ==
    /\ pc = "aborted"
    /\ Faulty = {"gene_chart"}
    /\ Shown("gene_intro")
    /\ ~Shown("blast_table") /\ ~Shown("image1")

\* positions inside a `with open(...)` block
InsideWith ==
    {"fastqc_before_read", "fastqc_after_read", "quast_read", "extract_loop",
     "extract_unwind"}

\* C9: at most one file is open at any time, a file is open only inside its
\* with block, and none is open between rendering steps or when the run has
\* ended, normally or by an exception.
C9_HandlesScoped ==
    /\ Len(open_files) <= 1
    /\ pc \notin InsideWith => open_files = <<>>
    /\ pc \in InsideWith => Len(open_files) = 1

\* C9 case: a malformed line ended the run and the file is closed
C9_Witness ==
    /\ pc = "aborted"
    /\ exception = "ValueError"
    /\ call = "raised"
    /\ open_files = <<>>

\* the reports embedded by a FastQC section
Embedded(sec) ==
    {rendered[k].src : k \in {i \in 1..Len(rendered) :
                                rendered[i].section = sec /\ rendered[i].kind = "html"}}

\* C10: the report embedded is the file whose base name is exactly the name
\* selected, and with no report file nothing is embedded.
C10_SelectedReportShown ==
    /\ \A src \in Embedded("fastqc_before") : Basename(src) = selected_report
    /\ \A src \in Embedded("fastqc_after") : Basename(src) = selected_trimmed_report
    /\ fs.before = {} => Embedded("fastqc_before") = {}
    /\ fs.after = {} => Embedded("fastqc_after") = {}

====
